---- MODULE Spec2Model ----
(***************************************************************************)
(* esbuild-plugin-cpp: a plugin whose onLoad callback runs the file        *)
(* through `cpp -P` and hands the captured standard output to the host    *)
(* as JavaScript (src/index.js).                                           *)
(*                                                                         *)
(* A string is a sequence of pieces (short literal strings); an argument   *)
(* list is a sequence of strings.  A JavaScript value that is either a     *)
(* string or an array of strings carries a tag t.                          *)
(***************************************************************************)
EXTENDS Naturals, Sequences, FiniteSets

VARIABLES
    constructedWith,        \* the argument cppPlugin was called with
    callerList,             \* the caller's own array, as it is now
    predefineNamesOptions,  \* closure constant computed by cppPlugin
    registered,             \* callbacks registered on the build object
    setupCalls,             \* number of calls of setup(build)
    loads,                  \* load events, in order of arrival
    procs                   \* subprocesses, in order of spawning

vars == <<constructedWith, callerList, predefineNamesOptions, registered,
          setupCalls, loads, procs>>

----------------------------------------------------------------------------
(* Bounds *)

MaxNames == 2
MaxSetups == 2
MaxLoads == 2

----------------------------------------------------------------------------
(* Inputs *)

Names == { <<"A">>, <<"B">> }

NameLists == UNION { [1..n -> Names] : n \in 0..MaxNames }

Undefined == [t |-> "undefined", v |-> <<>>]

JArr(a) == [t |-> "arr", v |-> a]

JStr(s) == [t |-> "str", v |-> s]

ConstructorArgs == { Undefined } \cup { JArr(l) : l \in NameLists }

Paths == { <<"a", ".", "j", "s">>, <<"b", "\n">> }

Stdouts == { <<"x">>, <<"y">> }

Warnings == { <<>>, <<"warning: w">> }

Errors == { <<"error: ", "\"msg\"">> }

\* How a subprocess can end: not started at all, or exited with a status
\* after writing to its two streams.
Outcomes ==
    { [kind |-> "spawn_error", code |-> 0, stdout |-> <<>>, stderr |-> <<>>] }
    \cup { [kind |-> "exit", code |-> 0, stdout |-> o, stderr |-> w] :
             o \in Stdouts, w \in Warnings }
    \cup { [kind |-> "exit", code |-> 1, stdout |-> <<>>, stderr |-> e] :
             e \in Errors }

----------------------------------------------------------------------------
(* Strings *)

RECURSIVE Join(_, _)
\* Array.prototype.join
Join(strs, sep) ==
    IF strs = <<>> THEN <<>>
    ELSE IF Len(strs) = 1 THEN strs[1]
    ELSE strs[1] \o sep \o Join(Tail(strs), sep)

\* String(value) of a string or of an array of strings
ToString(x) == IF x.t = "str" THEN x.v ELSE Join(x.v, <<",">>)

IsSuffix(s, t) ==
    Len(s) <= Len(t) /\ SubSeq(t, Len(t) - Len(s) + 1, Len(t)) = s

----------------------------------------------------------------------------
(* The filter of the registration *)

Filter == <<".", "*">>

CharMatches(c, ch) == IF c = "." THEN ch /= "\n" ELSE c = ch

RECURSIVE MatchHere(_, _)
RECURSIVE MatchStar(_, _, _)
MatchHere(re, text) ==
    IF re = <<>> THEN TRUE
    ELSE IF Len(re) >= 2 /\ re[2] = "*"
         THEN MatchStar(re[1], SubSeq(re, 3, Len(re)), text)
    ELSE IF re[1] = "$" /\ Len(re) = 1 THEN text = <<>>
    ELSE IF text /= <<>> /\ CharMatches(re[1], text[1])
         THEN MatchHere(Tail(re), Tail(text))
    ELSE FALSE

MatchStar(c, re, text) ==
    \/ MatchHere(re, text)
    \/ /\ text /= <<>>
       /\ CharMatches(c, text[1])
       /\ MatchStar(c, re, Tail(text))

\* RegExp.prototype.test: an unanchored search
Test(re, text) ==
    IF re /= <<>> /\ re[1] = "^" THEN MatchHere(Tail(re), text)
    ELSE \E k \in 1..(Len(text) + 1) : MatchHere(re, SubSeq(text, k, Len(text)))

----------------------------------------------------------------------------
(* cppPlugin *)

\* `-D ${name} `
PredefineOption(name) == <<"-D", " ">> \o name \o <<" ">>

\* predefineNames = [] by default; predefineNames.map(...)
cppPlugin(arg) ==
    LET predefineNames == IF arg.t = "undefined" THEN <<>> ELSE arg.v
    IN  [i \in 1..Len(predefineNames) |-> PredefineOption(predefineNames[i])]

Options_AlwaysNested(pno, path) == << JStr(<<"-P">>), JArr(pno), JStr(path) >>

\* const options = predefineNamesOptions.length ? [...] : [...]
Options(pno, path) ==
    IF Len(pno) /= 0
    THEN << JStr(<<"-P">>), JArr(pno), JStr(path) >>
    ELSE << JStr(<<"-P">>), JStr(path) >>

\* The argument vector the child process receives: every element of the
\* args array converted to a string.
Argv(options) == [i \in 1..Len(options) |-> ToString(options[i])]

\* The closure's read of predefineNamesOptions inside the callback
CapturedOptions_Live == cppPlugin(JArr(callerList))

CapturedOptions == predefineNamesOptions

----------------------------------------------------------------------------
(* execFile and the callback's continuation *)

NoOutcome == [kind |-> "none"]

\* promisify(child_process.execFile): the promise settles when the child
\* has ended.
ExecFileSettle(proc, o) ==
    IF o.kind = "spawn_error"
    THEN [kind |-> "rejected",
          reason |-> [code |-> "ENOENT",
                      message |-> <<"spawn ">> \o proc.file \o <<" ENOENT">>,
                      stdout |-> <<>>, stderr |-> <<>>]]
    ELSE IF o.code /= 0
    THEN [kind |-> "rejected",
          reason |-> [code |-> "EXIT",
                      message |-> <<"Command failed: ">>
                                  \o Join(<<proc.file>> \o proc.argv, <<" ">>)
                                  \o <<"\n">> \o o.stderr,
                      stdout |-> o.stdout, stderr |-> o.stderr]]
    ELSE [kind |-> "fulfilled",
          value |-> [stdout |-> o.stdout, stderr |-> o.stderr]]

Continue_Masked(settled) ==
    IF settled.kind = "fulfilled"
    THEN [kind |-> "resolved",
          value |-> [contents |-> settled.value.stdout, loader |-> <<"js">>]]
    ELSE [kind |-> "resolved",
          value |-> [contents |-> <<>>, loader |-> <<"js">>]]

Continue_Stderr(settled) ==
    IF settled.kind = "fulfilled"
    THEN [kind |-> "resolved",
          value |-> [contents |-> settled.value.stdout \o settled.value.stderr,
                     loader |-> <<"js">>]]
    ELSE [kind |-> "rejected", reason |-> settled.reason]

Continue_Rethrow(settled) ==
    IF settled.kind = "fulfilled"
    THEN [kind |-> "resolved",
          value |-> [contents |-> settled.value.stdout, loader |-> <<"js">>]]
    ELSE [kind |-> "rejected",
          reason |-> [code |-> settled.reason.code,
                      message |-> <<"cpp failed">>,
                      stdout |-> <<>>, stderr |-> <<>>]]

Continue_FailOnStderr(settled) ==
    IF settled.kind = "fulfilled" /\ settled.value.stderr = <<>>
    THEN [kind |-> "resolved",
          value |-> [contents |-> settled.value.stdout, loader |-> <<"js">>]]
    ELSE IF settled.kind = "fulfilled"
    THEN [kind |-> "rejected",
          reason |-> [code |-> "EXIT", message |-> settled.value.stderr,
                      stdout |-> settled.value.stdout,
                      stderr |-> settled.value.stderr]]
    ELSE [kind |-> "rejected", reason |-> settled.reason]

\* const {stdout} = await execFile(...); return {contents: stdout, loader: 'js'}
\* A rejection of the awaited promise rejects the callback's promise with
\* the same reason.
Continue(settled) ==
    IF settled.kind = "fulfilled"
    THEN [kind |-> "resolved",
          value |-> [contents |-> settled.value.stdout, loader |-> <<"js">>]]
    ELSE [kind |-> "rejected", reason |-> settled.reason]

----------------------------------------------------------------------------
(* State machine *)

Init ==
    \E arg \in ConstructorArgs :
        /\ constructedWith = arg
        /\ callerList = arg.v
        /\ predefineNamesOptions = cppPlugin(arg)
        /\ registered = <<>>
        /\ setupCalls = 0
        /\ loads = <<>>
        /\ procs = <<>>

\* The caller empties its own array after the plugin was constructed
\* (predefineNames.length = 0).
CallerClear ==
    /\ constructedWith.t = "arr"
    /\ callerList /= <<>>
    /\ callerList' = <<>>
    /\ UNCHANGED <<constructedWith, predefineNamesOptions, registered,
                   setupCalls, loads, procs>>

Setup_Filtered ==
    /\ setupCalls < MaxSetups
    /\ setupCalls' = setupCalls + 1
    /\ registered' = Append(registered, [filter |-> <<"j", "s", "$">>])
    /\ UNCHANGED <<constructedWith, callerList, predefineNamesOptions,
                   loads, procs>>

\* setup(build): build.onLoad({filter: /.*/}, callback)
Setup ==
    /\ setupCalls < MaxSetups
    /\ setupCalls' = setupCalls + 1
    /\ registered' = Append(registered, [filter |-> Filter])
    /\ UNCHANGED <<constructedWith, callerList, predefineNamesOptions,
                   loads, procs>>

NewProc(l, path) ==
    [load |-> l,
     file |-> <<"cpp">>,
     argv |-> Argv(Options(CapturedOptions, path)),
     listChanged |-> (callerList /= constructedWith.v),
     status |-> "running",
     outcome |-> NoOutcome]

NewLoad(path) == [path |-> path, state |-> "awaiting", result |-> NoOutcome]

LoadEvent_Cached(path) ==
    /\ Len(loads) < MaxLoads
    /\ \E k \in DOMAIN registered : Test(registered[k].filter, path)
    /\ IF \E m \in DOMAIN loads :
              loads[m].path = path /\ loads[m].state = "resolved"
       THEN LET m == CHOOSE m \in DOMAIN loads :
                         loads[m].path = path /\ loads[m].state = "resolved"
            IN  /\ loads' = Append(loads, loads[m])
                /\ procs' = procs
       ELSE /\ loads' = Append(loads, NewLoad(path))
            /\ procs' = Append(procs, NewProc(Len(loads) + 1, path))
    /\ UNCHANGED <<constructedWith, callerList, predefineNamesOptions,
                   registered, setupCalls>>

\* The host needs the contents of `path` and a registered callback's filter
\* matches it: the callback runs up to its await, which spawns the child.
LoadEvent(path) ==
    /\ Len(loads) < MaxLoads
    /\ \E k \in DOMAIN registered : Test(registered[k].filter, path)
    /\ loads' = Append(loads, NewLoad(path))
    /\ procs' = Append(procs, NewProc(Len(loads) + 1, path))
    /\ UNCHANGED <<constructedWith, callerList, predefineNamesOptions,
                   registered, setupCalls>>

ProcEnd_Latest(i, o) ==
    /\ i \in DOMAIN procs
    /\ procs[i].status = "running"
    /\ LET r == Continue(ExecFileSettle(procs[i], o))
           l == Len(loads)
       IN  /\ procs' = [procs EXCEPT ![i].status = "ended", ![i].outcome = o]
           /\ loads' = [loads EXCEPT ![l].state = r.kind, ![l].result = r]
    /\ UNCHANGED <<constructedWith, callerList, predefineNamesOptions,
                   registered, setupCalls>>

\* Child i ends with outcome o; the promise of execFile settles and the
\* callback of the load that awaited it runs to its end.
ProcEnd(i, o) ==
    /\ i \in DOMAIN procs
    /\ procs[i].status = "running"
    /\ LET r == Continue(ExecFileSettle(procs[i], o))
           l == procs[i].load
       IN  /\ procs' = [procs EXCEPT ![i].status = "ended", ![i].outcome = o]
           /\ loads' = [loads EXCEPT ![l].state = r.kind, ![l].result = r]
    /\ UNCHANGED <<constructedWith, callerList, predefineNamesOptions,
                   registered, setupCalls>>

Next ==
    \/ CallerClear
    \/ Setup
    \/ \E path \in Paths : LoadEvent(path)
    \/ \E i \in 1..MaxLoads, o \in Outcomes : ProcEnd(i, o)

Spec == Init /\ [][Next]_vars

----------------------------------------------------------------------------
(* Properties *)

Last(s) == s[Len(s)]

Contains(t, s) ==
    \E k \in 1..(Len(t) + 1) :
        k + Len(s) - 1 <= Len(t) /\ SubSeq(t, k, k + Len(s) - 1) = s

Failed(o) == o.kind = "spawn_error" \/ (o.kind = "exit" /\ o.code /= 0)

Succeeded(o) == o.kind = "exit" /\ o.code = 0

OwnProcs(l) == { i \in DOMAIN procs : procs[i].load = l }

\* The ways one name can be handed to cpp as a predefine flag: "-Dname",
\* "-D name" (with or without a trailing blank) as one argument, or "-D"
\* and the name as two arguments.
PredefineForms(n) ==
    { << <<"-D">> \o n >>,
      << <<"-D", " ">> \o n >>,
      << <<"-D", " ">> \o n \o <<" ">> >>,
      << <<"-D">>, n >> }

RECURSIVE FlagsOK(_, _)
FlagsOK(args, names) ==
    IF names = <<>> THEN args = <<>>
    ELSE \E f \in PredefineForms(Head(names)) :
            /\ Len(args) >= Len(f)
            /\ SubSeq(args, 1, Len(f)) = f
            /\ FlagsOK(SubSeq(args, Len(f) + 1, Len(args)), Tail(names))

\* C1: with N >= 1 configured names, the argument list of every subprocess
\* is -P, then one predefine flag per configured name in the configured
\* order, each carrying just that name, then the path of the load; no two
\* names share one argument.
C1_OnePredefineFlagPerName ==
    \A i \in DOMAIN procs :
        LET a == procs[i].argv
            names == constructedWith.v
        IN  Len(names) >= 1 =>
                /\ Len(a) >= 2
                /\ a[1] = <<"-P">>
                /\ Last(a) = loads[procs[i].load].path
                /\ FlagsOK(SubSeq(a, 2, Len(a) - 1), names)

\* C2: constructed with an empty list or without a parameter, the argument
\* list of every subprocess is exactly -P followed by the path of the load.
C2_EmptyListArgv ==
    \A i \in DOMAIN procs :
        constructedWith.v = <<>> =>
            procs[i].argv = << <<"-P">>, loads[procs[i].load].path >>

C2_Witness ==
    /\ constructedWith.t = "undefined"
    /\ \E i \in DOMAIN procs : procs[i].status = "ended"

\* C3: when the subprocess of a load exits with a non-zero status or could
\* not be started, the callback of that load is rejected and the host gets
\* no result object from it.
C3_FailurePropagates ==
    \A i \in DOMAIN procs :
        (procs[i].status = "ended" /\ Failed(procs[i].outcome)) =>
            /\ loads[procs[i].load].state = "rejected"
            /\ loads[procs[i].load].result.kind = "rejected"

C3_Witness ==
    /\ \E i \in DOMAIN procs :
          procs[i].status = "ended" /\ procs[i].outcome.kind = "spawn_error"
    /\ \E i \in DOMAIN procs :
          /\ procs[i].status = "ended"
          /\ procs[i].outcome.kind = "exit"
          /\ procs[i].outcome.code /= 0

\* C4: when the subprocess of a load exits with status zero, the callback
\* returns contents equal to the captured standard output, unmodified, and
\* the loader tag js.
C4_SuccessResult ==
    \A i \in DOMAIN procs :
        (procs[i].status = "ended" /\ Succeeded(procs[i].outcome)) =>
            /\ loads[procs[i].load].state = "resolved"
            /\ loads[procs[i].load].result.value.contents = procs[i].outcome.stdout
            /\ loads[procs[i].load].result.value.loader = <<"js">>

C4_Witness ==
    /\ Len(constructedWith.v) >= 1
    /\ \E i \in DOMAIN procs :
          /\ procs[i].status = "ended"
          /\ Succeeded(procs[i].outcome)
          /\ procs[i].outcome.stderr /= <<>>

\* C5: when the subprocess exits non-zero after writing to its error
\* stream, the rejection reason carries that text verbatim: as its stderr
\* and at the end of its message.
C5_StderrInFailure ==
    \A i \in DOMAIN procs :
        ( /\ procs[i].status = "ended"
          /\ procs[i].outcome.kind = "exit"
          /\ procs[i].outcome.code /= 0
          /\ procs[i].outcome.stderr /= <<>> ) =>
            /\ loads[procs[i].load].state = "rejected"
            /\ loads[procs[i].load].result.reason.stderr = procs[i].outcome.stderr
            /\ IsSuffix(procs[i].outcome.stderr,
                        loads[procs[i].load].result.reason.message)
            /\ Contains(loads[procs[i].load].result.reason.message, <<"\"msg\"">>)

C5_Witness ==
    \E i \in DOMAIN procs :
        /\ procs[i].status = "ended"
        /\ procs[i].outcome.kind = "exit"
        /\ procs[i].outcome.code /= 0
        /\ Contains(procs[i].outcome.stderr, <<"\"msg\"">>)

WarnedSuccess(i) ==
    /\ procs[i].status = "ended"
    /\ Succeeded(procs[i].outcome)
    /\ procs[i].outcome.stderr /= <<>>

\* C6 as stated: when the subprocess writes a warning to its error stream
\* and exits with status zero, the load does not fail and the warning text
\* is part of what the callback returns.
C6_WarningSurfaced ==
    \A i \in DOMAIN procs :
        WarnedSuccess(i) =>
            /\ loads[procs[i].load].state = "resolved"
            /\ \E f \in DOMAIN loads[procs[i].load].result.value :
                  Contains(loads[procs[i].load].result.value[f],
                           procs[i].outcome.stderr)

\* C6 as amended: when the subprocess writes a warning to its error stream
\* and exits with status zero, the load does not fail, and what the
\* callback returns has only the contents (the captured standard output)
\* and the loader tag js: the warning text is not part of it.
C6_WarningDropped ==
    \A i \in DOMAIN procs :
        WarnedSuccess(i) =>
            /\ loads[procs[i].load].state = "resolved"
            /\ DOMAIN loads[procs[i].load].result.value = {"contents", "loader"}
            /\ loads[procs[i].load].result.value.contents = procs[i].outcome.stdout
            /\ loads[procs[i].load].result.value.loader = <<"js">>
            /\ ~ Contains(loads[procs[i].load].result.value.contents,
                          procs[i].outcome.stderr)

C6_Witness ==
    \E i \in DOMAIN procs :
        WarnedSuccess(i) /\ loads[procs[i].load].state = "resolved"

\* Load l stands as its own subprocess left it.
OwnResult(l) ==
    \E i \in OwnProcs(l) :
        /\ Last(procs[i].argv) = loads[l].path
        /\ CASE loads[l].state = "awaiting" ->
                  /\ procs[i].status = "running"
                  /\ ENABLED (\E o \in Outcomes : ProcEnd(i, o))
             [] loads[l].state = "resolved" ->
                  /\ procs[i].status = "ended"
                  /\ Succeeded(procs[i].outcome)
                  /\ loads[l].result.value.contents = procs[i].outcome.stdout
             [] loads[l].state = "rejected" ->
                  /\ procs[i].status = "ended"
                  /\ Failed(procs[i].outcome)
                  /\ loads[l].result.reason.stderr = procs[i].outcome.stderr

\* C7: with loads in flight at the same time, in every interleaving and
\* order of completion, every load settles with the outcome of its own
\* subprocess (the one that was given its path); the end of one subprocess
\* changes no other load, and a load still awaiting can always complete.
C7_IndependentLoads ==
    /\ [](\A l \in DOMAIN loads : OwnResult(l))
    /\ [][\A l \in DOMAIN loads :
             /\ loads[l].state /= "awaiting" => loads'[l] = loads[l]
             /\ loads'[l] /= loads[l] =>
                   \A m \in DOMAIN loads : m /= l => loads'[m] = loads[m]]_vars

C7_Witness ==
    /\ Len(loads) = 2
    /\ loads[1].path /= loads[2].path
    /\ loads[1].state = "awaiting"
    /\ loads[2].state = "rejected"

\* C8: every load event has exactly one subprocess: a repeated load of a
\* path spawns again, and a failed one is not run again.
C8_OneSpawnPerLoad ==
    /\ Len(procs) = Len(loads)
    /\ \A l \in DOMAIN loads : Cardinality(OwnProcs(l)) = 1

C8_Witness ==
    /\ Len(loads) = 2
    /\ loads[1].path = loads[2].path
    /\ loads[1].state = "resolved"
    /\ loads[2].state = "rejected"
    /\ Len(procs) = 2

TestPaths == Paths \cup { <<>>, <<"\n">>, <<"\n", "\n">> }

\* C9: a call of setup registers exactly one callback, whose filter matches
\* every path, and spawns nothing.
C9_SetupRegistersOne ==
    [][setupCalls' /= setupCalls =>
          /\ Len(registered') = Len(registered) + 1
          /\ SubSeq(registered', 1, Len(registered)) = registered
          /\ \A p \in TestPaths : Test(Last(registered').filter, p)
          /\ procs' = procs
          /\ loads' = loads]_vars

C9_Witness ==
    /\ setupCalls = 2
    /\ Len(registered) = 2
    /\ \E l \in DOMAIN loads : Contains(loads[l].path, <<"\n">>)

\* The names among the pieces of the predefine arguments, in order.
NamesIn(argv) ==
    SelectSeq(Join(SubSeq(argv, 2, Len(argv) - 1), <<>>),
              LAMBDA x : <<x>> \in Names)

\* C10: the names every subprocess is given are those of the list as it
\* was when cppPlugin was called, whatever the caller did to its list
\* since; no step changes the options captured at construction.
C10_ConfigurationFixed ==
    /\ [](\A i \in DOMAIN procs :
             NamesIn(procs[i].argv) = Join(constructedWith.v, <<>>))
    /\ [][predefineNamesOptions' = predefineNamesOptions]_vars

C10_Witness ==
    /\ Len(constructedWith.v) >= 1
    /\ \E i \in DOMAIN procs : procs[i].listChanged /\ procs[i].status = "ended"

====
